---- MODULE Spec2Model ----
(***************************************************************************)
(* Model of app/sonarr_bangumi_importer.py: the TVDB id cache kept in the  *)
(* SQLite table tvdb_cache (TVDBCache.get / TVDBCache.set), the resolver   *)
(* lookup_series_by_name, the collection fetcher get_bgm_collection and    *)
(* the route GET /watching-list (get_list).                                *)
(*                                                                         *)
(* Requests are served by worker threads (Flask's app.run serves each      *)
(* request in its own thread); a thread's steps are the places where it    *)
(* talks to the outside: the Bangumi call, the cache read, the Sonarr      *)
(* call, the evaluation of datetime.now() for a cache write, the REPLACE.  *)
(* Time is counted in ticks, TicksPerDay ticks to the day.                 *)
(***************************************************************************)
EXTENDS Integers, Sequences, FiniteSets, TLC

\* ---- bounds of the model ----
MaxTime == 2
MaxItems == 2

\* ---- input domains ----
Threads == {1, 2}
\* the thread of the single-threaded service
Main == CHOOSE t \in Threads : \A u \in Threads : t <= u
\* two series names differing only in case (series_name is matched exactly)
Names == {"A", "a"}
\* tvdbId values the lookup service may report
Ids == {0, 1, 2}
\* cache.expire_days values the configuration may hold
ExpireDaysChoices == {0, 1}
TicksPerDay == 2

VARIABLES
    table,        \* rows of tvdb_cache: [series_name, tvdb_id, created_at]
    now,          \* datetime.now(), in ticks
    dbOk,         \* whether CONFIG['database']['path'] can be opened
    expire_days,  \* CONFIG['cache']['expire_days']
    pc,           \* per thread: where its request stands
    items,        \* per thread: response.json() of the Bangumi call
    idx,          \* per thread: position of the list comprehension
    out,          \* per thread: list built so far by the comprehension
    cached_id,    \* per thread: value bound by the walrus at line 81
    tvdb_id,      \* per thread: results[0]['tvdbId']
    stamp,        \* per thread: datetime.now().isoformat() of the pending set
    resp,         \* per thread: the HTTP response of its request
    bgmCalls,     \* per thread: calls made to the tracking service
    fetched,      \* per thread: outcome of the tracking-service call
    how,          \* per thread: how each element of out was obtained
    cur,          \* per thread: what happened to the item resolved last
    stErr,        \* per thread: a sqlite3 error was raised in this request
    lastSet       \* per name: arguments of the last committed TVDBCache.set

vars == <<table, now, dbOk, expire_days, pc, items, idx, out, cached_id,
          tvdb_id, stamp, resp, bgmCalls, fetched, how, cur, stErr, lastSet>>

\* ---- Optional[int] and friends ----
None == <<>>
Some(x) == <<x>>
\* Python truthiness of an Optional[int]: None and 0 are falsy (line 81)
Truthy(opt) == opt # None /\ opt[1] # 0

\* ---- timestamps: datetime.isoformat() / datetime.fromisoformat() ----
\* isoformat() leaves the sub-day part out when it is zero, as it leaves
\* the microseconds out of "2024-01-01T12:00:00".
isoformat(t) ==
    IF t % TicksPerDay = 0 THEN <<t \div TicksPerDay>>
                           ELSE <<t \div TicksPerDay, t % TicksPerDay>>

fromisoformat(s) ==
    IF Len(s) = 1 THEN s[1] * TicksPerDay ELSE s[1] * TicksPerDay + s[2]

timedelta(days) == days * TicksPerDay

\* ---- the table tvdb_cache (init_db) ----
\* the AUTOINCREMENT column id is written by SQLite and read by no statement
\* of the program; a row is its other three columns
Row(n, v, c) == [series_name |-> n, tvdb_id |-> v, created_at |-> c]

\* SELECT tvdb_id, created_at FROM tvdb_cache WHERE series_name = ?
\* followed by fetchone(): the matching rows (series_name is UNIQUE)
Select(tbl, series_name) == {r \in tbl : r.series_name = series_name}

\* (mutant) the comparison of lines 62-64 made inclusive
NotExpiredInclusive(created_at, t, days) ==
    fromisoformat(created_at) >= t - timedelta(days)

\* the comparison of lines 62-64
NotExpired(created_at, t, days) ==
    fromisoformat(created_at) > t - timedelta(days)

\* TVDBCache.get
TVDBCacheGet(tbl, series_name, t, days) ==
    LET result == Select(tbl, series_name) IN
    IF result # {} /\ NotExpired((CHOOSE r \in result : TRUE).created_at, t, days)
    THEN Some((CHOOSE r \in result : TRUE).tvdb_id)
    ELSE None

\* (mutant) TVDBCache.get deleting the row it finds expired
PurgeExpired(tbl, series_name, t, days) ==
    tbl \ {r \in Select(tbl, series_name) : ~NotExpired(r.created_at, t, days)}

\* the table after TVDBCache.get: a SELECT changes no row
TableAfterGet(tbl, series_name, t, days) == tbl

\* (mutant) INSERT INTO in place of REPLACE INTO, on a column not UNIQUE
InsertInto(tbl, series_name, v, c) == tbl \cup {Row(series_name, v, c)}

\* REPLACE INTO tvdb_cache (series_name, tvdb_id, created_at) VALUES (?,?,?):
\* the rows that conflict on the UNIQUE column are deleted, the new row is
\* inserted
ReplaceInto(tbl, series_name, v, c) ==
    (tbl \ {r \in tbl : r.series_name = series_name}) \cup {Row(series_name, v, c)}

\* ---- lookup_series_by_name ----
\* outcomes of the Sonarr call: a RequestException (network error, timeout,
\* raise_for_status) or the decoded list of results
LookupError == [ok |-> FALSE, results |-> <<>>]
LookupOk(rs) == [ok |-> TRUE, results |-> rs]
\* a second result, when there is one, differs from the first
Other(a) == CHOOSE b \in Ids : b # a /\ \A c \in Ids \ {a} : b <= c
LookupOutcomes ==
    {LookupError, LookupOk(<<>>)}
        \cup {LookupOk(<<a>>) : a \in Ids}
        \cup {LookupOk(<<a, Other(a)>>) : a \in Ids}

\* (mutant) results[-1] in place of results[0]
LookupResultLast(o) ==
    IF ~o.ok THEN [ret |-> 0, write |-> FALSE]
    ELSE IF o.results = <<>> THEN [ret |-> 0, write |-> FALSE]
    ELSE [ret |-> o.results[Len(o.results)], write |-> TRUE]

\* (mutant) an empty result cached as identifier 0
LookupResultCachesEmpty(o) ==
    IF ~o.ok THEN [ret |-> 0, write |-> FALSE]
    ELSE IF o.results = <<>> THEN [ret |-> 0, write |-> TRUE]
    ELSE [ret |-> o.results[1], write |-> TRUE]

\* lines 87-106 after the call: the value returned and whether
\* TVDBCache.set is called with it
LookupResult(o) ==
    IF ~o.ok THEN [ret |-> 0, write |-> FALSE]
    ELSE IF o.results = <<>> THEN [ret |-> 0, write |-> FALSE]
    ELSE [ret |-> o.results[1], write |-> TRUE]

\* ---- get_bgm_collection / get_list ----
\* an entry of the tracking-service payload: <<name>>, or <<>> for an entry
\* on which item['name'] raises
Entries == {Some(n) : n \in Names} \cup {None}
Payloads == UNION {[1..k -> Entries] : k \in 0..MaxItems}

\* (mutant) the list built back to front
PrependItem(list, title, id) == <<[title |-> title, tvdbId |-> id]>> \o list

\* the list comprehension of lines 118-121 adds one element
AppendItem(list, title, id) == Append(list, [title |-> title, tvdbId |-> id])

\* (mutant) "except requests.exceptions.RequestException" at line 123
CatchesRequestException(kind) == kind = "RequestException"

\* the handler of line 123: "except Exception" catches every kind raised here
Catches(kind) ==
    kind \in {"RequestException", "ValueError", "KeyError", "OperationalError"}

NoResp == [status |-> 0, body |-> <<>>]
\* jsonify(...) of the list returned; an uncaught exception is Flask's 500
Response(list) == [status |-> 200, body |-> list]
ServerError == [status |-> 500, body |-> <<>>]

\* ---- record of the item resolved last, kept for the properties ----
\* name: the item's name; seen: <<>> when the SELECT found no row, else
\* <<[tvdb_id, age]>> with age = now - created_at at that moment;
\* got: what TVDBCache.get returned; calls: lookup-service calls made for
\* the item; outcome: <<>> before any call, else <<the service's answer>>;
\* ret: what lookup_series_by_name returned (<<>> while it has not)
NoItem ==
    [name |-> "", seen |-> <<>>, got |-> None, calls |-> 0, outcome |-> <<>>,
     ret |-> None]

Seen(tbl, n, t) ==
    IF Select(tbl, n) = {} THEN <<>>
    ELSE LET r == CHOOSE r \in Select(tbl, n) : TRUE
         IN  <<[tvdb_id |-> r.tvdb_id, age |-> t - fromisoformat(r.created_at)]>>

\* how lookup_series_by_name came to its value, for the record how
Kind(item) ==
    IF item.outcome = <<>> THEN "cached"
    ELSE IF ~item.outcome[1].ok THEN "error"
    ELSE IF item.outcome[1].results = <<>> THEN "empty"
    ELSE "found"

Init ==
    /\ table = {}
    /\ now = 0
    /\ dbOk = TRUE
    /\ expire_days \in ExpireDaysChoices
    /\ pc = [t \in Threads |-> "idle"]
    /\ items = [t \in Threads |-> <<>>]
    /\ idx = [t \in Threads |-> 0]
    /\ out = [t \in Threads |-> <<>>]
    /\ cached_id = [t \in Threads |-> None]
    /\ tvdb_id = [t \in Threads |-> 0]
    /\ stamp = [t \in Threads |-> <<0>>]
    /\ resp = [t \in Threads |-> NoResp]
    /\ bgmCalls = [t \in Threads |-> 0]
    /\ fetched = [t \in Threads |-> "none"]
    /\ how = [t \in Threads |-> <<>>]
    /\ cur = [t \in Threads |-> NoItem]
    /\ stErr = [t \in Threads |-> FALSE]
    /\ lastSet = [n \in Names |-> None]

\* get_list answers r: the request is done
Finish(t, r) ==
    /\ resp' = [resp EXCEPT ![t] = r]
    /\ pc' = [pc EXCEPT ![t] = "done"]
    /\ idx' = [idx EXCEPT ![t] = 0]
    /\ out' = [out EXCEPT ![t] = <<>>]
    /\ cached_id' = [cached_id EXCEPT ![t] = None]
    /\ UNCHANGED <<tvdb_id, stamp>>

\* an exception of the given kind reaches the try of get_bgm_collection
\* (lines 110-125) while an item is resolved: caught, it returns [] and
\* get_list answers with it; not caught, it leaves get_list and Flask
\* answers 500
Throw(t, kind) ==
    /\ Finish(t, IF Catches(kind) THEN Response(<<>>) ELSE ServerError)
    /\ UNCHANGED <<items, how, cur>>

\* lookup_series_by_name returns id for the current item, whose record is
\* item: the comprehension adds the element and goes on with the next
\* entry, or the list is returned and get_list answers with it
Deliver(t, id, item) ==
    LET list == AppendItem(out[t], items[t][idx[t]][1], id) IN
    /\ cur' = [cur EXCEPT ![t] = item]
    /\ how' = [how EXCEPT ![t] = Append(@, [kind |-> Kind(item), ret |-> item.ret])]
    /\ UNCHANGED items
    /\ IF idx[t] = Len(items[t])
       THEN Finish(t, Response(list))
       ELSE /\ out' = [out EXCEPT ![t] = list]
            /\ idx' = [idx EXCEPT ![t] = idx[t] + 1]
            /\ pc' = [pc EXCEPT ![t] = "get"]
            /\ cached_id' = [cached_id EXCEPT ![t] = None]
            /\ tvdb_id' = [tvdb_id EXCEPT ![t] = 0]
            /\ stamp' = [stamp EXCEPT ![t] = <<0>>]
            /\ UNCHANGED resp

\* GET /watching-list arrives (get_list); the thread's previous request,
\* if any, has been answered
StartRequest(t) ==
    /\ pc[t] \in {"idle", "done"}
    /\ pc' = [pc EXCEPT ![t] = "fetch"]
    /\ resp' = [resp EXCEPT ![t] = NoResp]
    /\ items' = [items EXCEPT ![t] = <<>>]
    /\ bgmCalls' = [bgmCalls EXCEPT ![t] = 0]
    /\ fetched' = [fetched EXCEPT ![t] = "none"]
    /\ how' = [how EXCEPT ![t] = <<>>]
    /\ cur' = [cur EXCEPT ![t] = NoItem]
    /\ stErr' = [stErr EXCEPT ![t] = FALSE]
    /\ tvdb_id' = [tvdb_id EXCEPT ![t] = 0]
    /\ stamp' = [stamp EXCEPT ![t] = <<0>>]
    /\ UNCHANGED <<table, now, dbOk, expire_days, idx, out, cached_id, lastSet>>

\* get_bgm_collection, lines 111-121: the tracking-service call fails with
\* a RequestException (network error, timeout, raise_for_status), or its
\* body is no JSON and response.json() raises a ValueError
FetchFails(t) ==
    /\ pc[t] = "fetch"
    /\ bgmCalls' = [bgmCalls EXCEPT ![t] = @ + 1]
    /\ \E kind \in {"RequestException", "ValueError"} :
        /\ fetched' = [fetched EXCEPT ![t] =
               IF kind = "RequestException" THEN "error" ELSE "malformed"]
        /\ Throw(t, kind)
    /\ UNCHANGED <<table, now, dbOk, expire_days, stErr, lastSet>>

\* get_bgm_collection, lines 111-121: the call succeeds with a payload
FetchCollection(t) ==
    /\ pc[t] = "fetch"
    /\ bgmCalls' = [bgmCalls EXCEPT ![t] = @ + 1]
    /\ \E payload \in Payloads :
        /\ fetched' = [fetched EXCEPT ![t] =
               IF \E i \in 1..Len(payload) : payload[i] = None
               THEN "malformed" ELSE "list"]
        /\ items' = [items EXCEPT ![t] = payload]
        /\ IF payload = <<>>
           THEN Finish(t, Response(<<>>))
           ELSE /\ idx' = [idx EXCEPT ![t] = 1]
                /\ pc' = [pc EXCEPT ![t] = "get"]
                /\ UNCHANGED <<out, cached_id, tvdb_id, stamp, resp>>
    /\ UNCHANGED <<table, now, dbOk, expire_days, how, cur, stErr, lastSet>>

\* lines 119-120 and 81: item['name'], then TVDBCache.get through the walrus
CacheGet(t) ==
    /\ pc[t] = "get"
    /\ IF items[t][idx[t]] = None
       THEN /\ Throw(t, "KeyError")
            /\ UNCHANGED <<table, stErr>>
       ELSE IF ~dbOk
       THEN /\ Throw(t, "OperationalError")
            /\ stErr' = [stErr EXCEPT ![t] = TRUE]
            /\ UNCHANGED table
       ELSE LET n == items[t][idx[t]][1]
                got == TVDBCacheGet(table, n, now, expire_days)
                obs == [NoItem EXCEPT !.name = n, !.seen = Seen(table, n, now),
                                      !.got = got]
            IN  /\ table' = TableAfterGet(table, n, now, expire_days)
                /\ UNCHANGED stErr
                /\ IF Truthy(got)
                   THEN Deliver(t, got[1], [obs EXCEPT !.ret = Some(got[1])])
                   ELSE /\ cur' = [cur EXCEPT ![t] = obs]
                        /\ cached_id' = [cached_id EXCEPT ![t] = got]
                        /\ pc' = [pc EXCEPT ![t] = "api"]
                        /\ UNCHANGED <<items, idx, out, tvdb_id, stamp, resp, how>>
    /\ UNCHANGED <<now, dbOk, expire_days, bgmCalls, fetched, lastSet>>

\* lines 87-106: the call to /api/v3/series/lookup and what follows it
SonarrLookup(t) ==
    /\ pc[t] = "api"
    /\ \E o \in LookupOutcomes :
        LET r == LookupResult(o)
            called == [cur[t] EXCEPT !.calls = @ + 1, !.outcome = <<o>>]
        IN  IF r.write
            THEN /\ cur' = [cur EXCEPT ![t] = called]
                 /\ tvdb_id' = [tvdb_id EXCEPT ![t] = r.ret]
                 /\ pc' = [pc EXCEPT ![t] = "set"]
                 /\ UNCHANGED <<items, idx, out, cached_id, stamp, resp, how>>
            ELSE Deliver(t, r.ret, [called EXCEPT !.ret = Some(r.ret)])
    /\ UNCHANGED <<table, now, dbOk, expire_days, bgmCalls, fetched, stErr,
                   lastSet>>

\* TVDBCache.set, lines 71-75: the store is opened and the arguments of the
\* statement are evaluated, datetime.now().isoformat() among them
CacheSetBegin(t) ==
    /\ pc[t] = "set"
    /\ IF ~dbOk
       THEN /\ Throw(t, "OperationalError")
            /\ stErr' = [stErr EXCEPT ![t] = TRUE]
       ELSE /\ stamp' = [stamp EXCEPT ![t] = isoformat(now)]
            /\ pc' = [pc EXCEPT ![t] = "commit"]
            /\ UNCHANGED <<items, idx, out, cached_id, tvdb_id, resp, how, cur,
                           stErr>>
    /\ UNCHANGED <<table, now, dbOk, expire_days, bgmCalls, fetched, lastSet>>

\* TVDBCache.set, lines 72-76, then line 102: the REPLACE is executed and
\* committed, and lookup_series_by_name returns tvdb_id
CacheSetCommit(t) ==
    /\ pc[t] = "commit"
    /\ IF ~dbOk
       THEN /\ Throw(t, "OperationalError")
            /\ stErr' = [stErr EXCEPT ![t] = TRUE]
            /\ UNCHANGED <<table, lastSet>>
       ELSE LET n == items[t][idx[t]][1] IN
            /\ table' = ReplaceInto(table, n, tvdb_id[t], stamp[t])
            /\ lastSet' = [lastSet EXCEPT ![n] =
                   Some([tvdb_id |-> tvdb_id[t], created_at |-> stamp[t]])]
            /\ UNCHANGED stErr
            /\ Deliver(t, tvdb_id[t], [cur[t] EXCEPT !.ret = Some(tvdb_id[t])])
    /\ UNCHANGED <<now, dbOk, expire_days, bgmCalls, fetched>>

\* TVDBCache.set(series_name, tvdb_id) is called (line 69) by a thread
\* that stands at line 101 for the only item of its request
CallSet(t) ==
    /\ pc[t] \in {"idle", "done"}
    /\ \E n \in Names, v \in Ids :
        /\ items' = [items EXCEPT ![t] = <<Some(n)>>]
        /\ tvdb_id' = [tvdb_id EXCEPT ![t] = v]
        /\ cur' = [cur EXCEPT ![t] =
               [NoItem EXCEPT !.name = n, !.calls = 1,
                              !.outcome = <<LookupOk(<<v>>)>>]]
    /\ idx' = [idx EXCEPT ![t] = 1]
    /\ pc' = [pc EXCEPT ![t] = "set"]
    /\ resp' = [resp EXCEPT ![t] = NoResp]
    /\ bgmCalls' = [bgmCalls EXCEPT ![t] = 1]
    /\ fetched' = [fetched EXCEPT ![t] = "list"]
    /\ how' = [how EXCEPT ![t] = <<>>]
    /\ stamp' = [stamp EXCEPT ![t] = <<0>>]
    /\ UNCHANGED <<table, now, dbOk, expire_days, out, cached_id, stErr,
                   lastSet>>

\* time passes
Tick ==
    /\ now < MaxTime
    /\ now' = now + 1
    /\ UNCHANGED <<table, dbOk, expire_days, pc, items, idx, out, cached_id,
                   tvdb_id, stamp, resp, bgmCalls, fetched, how, cur, stErr,
                   lastSet>>

\* the database file becomes unavailable
DbFail ==
    /\ dbOk
    /\ dbOk' = FALSE
    /\ UNCHANGED <<table, now, expire_days, pc, items, idx, out, cached_id,
                   tvdb_id, stamp, resp, bgmCalls, fetched, how, cur, stErr,
                   lastSet>>

\* the database file is available again
DbRecover ==
    /\ ~dbOk
    /\ dbOk' = TRUE
    /\ UNCHANGED <<table, now, expire_days, pc, items, idx, out, cached_id,
                   tvdb_id, stamp, resp, bgmCalls, fetched, how, cur, stErr,
                   lastSet>>

Step(t) ==
    \/ StartRequest(t)
    \/ FetchFails(t)
    \/ FetchCollection(t)
    \/ CacheGet(t)
    \/ SonarrLookup(t)
    \/ CacheSetBegin(t)
    \/ CacheSetCommit(t)

\* the service as section 5 of the specification has it: one request at a
\* time, the store available
Next == Step(Main) \/ Tick

Spec == Init /\ [][Next]_vars

\* the same with a store that may fail
NextFault == Step(Main) \/ Tick \/ DbFail \/ DbRecover

SpecFault == Init /\ [][NextFault]_vars

\* the cache alone, written by concurrent callers of TVDBCache.set
NextCache ==
    \/ \E t \in Threads : CallSet(t) \/ CacheSetBegin(t) \/ CacheSetCommit(t)
    \/ Tick

SpecCache == Init /\ [][NextCache]_vars

TypeOK ==
    /\ now \in 0..MaxTime /\ dbOk \in BOOLEAN
    /\ \A r \in table : r.series_name \in Names /\ r.tvdb_id \in Ids
    /\ \A t \in Threads :
        pc[t] \in {"idle", "fetch", "get", "api", "set", "commit", "done"}

\* ======================= the claims =======================

\* the expiry window, in ticks, as the specification words it
Window == expire_days * TicksPerDay
\* thread t has just taken a step of its request
Moved(t) == <<pc[t], idx[t], Len(how[t])>> # <<pc'[t], idx'[t], Len(how'[t])>>
\* the name thread t is resolving
CurName(t) == items[t][idx[t]][1]
\* thread t resolved an item whose entry was in the cache and within the window
SawFresh(t) == cur[t].seen # <<>> /\ cur[t].seen[1].age < Window
\* thread t resolved an item whose entry was in the cache and out of the window
SawStale(t) == cur[t].seen # <<>> /\ cur[t].seen[1].age >= Window

\* C1: whenever the cache holds an entry for the name within the expiry
\* window, lookup_series_by_name returns the stored identifier, whatever
\* integer it is, and makes no call to the lookup API.
C1_FreshEntryIsReturnedWithoutCall ==
    \A t \in Threads :
        SawFresh(t) =>
            /\ cur[t].calls = 0
            /\ cur[t].ret # None => cur[t].ret = Some(cur[t].seen[1].tvdb_id)

\* C2: on a cache miss, when the lookup call errors or succeeds with an
\* empty list, lookup_series_by_name returns 0 and the cache is left exactly
\* as it was (no entry created, a stale entry keeps identifier and timestamp).
C2_FailedLookupReturnsZeroCacheUntouched ==
    /\ [](\A t \in Threads :
            Kind(cur[t]) \in {"error", "empty"} =>
                /\ cur[t].ret = Some(0)
                /\ pc[t] \notin {"set", "commit"})
    /\ [][\A t \in Threads :
            (pc[t] = "api" /\ Moved(t) /\ Kind(cur'[t]) \in {"error", "empty"}) =>
                /\ table' = table
                /\ lastSet' = lastSet
                /\ Len(how'[t]) = Len(how[t]) + 1
                /\ how'[t][Len(how'[t])].ret = Some(0)]_vars

C2_Witness ==
    /\ pc[Main] = "done"
    /\ SawStale(Main)
    /\ Kind(cur[Main]) = "error"
    /\ resp[Main].body # <<>>
    /\ resp[Main].body[Len(resp[Main].body)].tvdbId = 0
    /\ \E r \in table :
        /\ r.series_name = cur[Main].name
        /\ r.tvdb_id = cur[Main].seen[1].tvdb_id
        /\ now - fromisoformat(r.created_at) >= cur[Main].seen[1].age

\* C3: on a cache miss, when the lookup call succeeds with at least one
\* result, lookup_series_by_name returns the identifier of the first result,
\* writes it to the cache under the name, and a get of the name made within
\* the expiry window of that write returns the same identifier.
C3_FirstResultReturnedAndCached ==
    /\ [](\A t \in Threads :
            (Kind(cur[t]) = "found" /\ cur[t].ret # None) =>
                cur[t].ret = Some(cur[t].outcome[1].results[1]))
    /\ [][\A t \in Threads :
            /\ (pc[t] = "api" /\ Moved(t) /\ Kind(cur'[t]) = "found") =>
                    pc'[t] = "set"
            /\ (pc[t] \in {"set", "commit"} /\ Moved(t)) =>
                    pc'[t] \in {"commit", "get", "done"}
            /\ (pc[t] = "commit" /\ Moved(t)) =>
                LET first == cur[t].outcome[1].results[1]
                    rows == {r \in table' : r.series_name = CurName(t)}
                IN  /\ cur'[t].ret = Some(first)
                    /\ Cardinality(rows) = 1
                    /\ \A r \in rows : r.tvdb_id = first
                    /\ \A r \in rows : \A later \in now..MaxTime :
                        later - fromisoformat(r.created_at) < Window =>
                            TVDBCacheGet(table', CurName(t), later, expire_days)
                                = Some(first)]_vars

C3_Witness ==
    /\ pc[Main] = "done"
    /\ Kind(cur[Main]) = "found"
    /\ Len(cur[Main].outcome[1].results) = 2
    /\ cur[Main].outcome[1].results[1] = 2
    /\ cur[Main].ret = Some(2)
    /\ SawStale(Main)
    /\ TVDBCacheGet(table, cur[Main].name, now, expire_days) = Some(2)

\* C4: when the tracking-service call succeeds with a list of entries, the
\* result has one item per entry, in upstream order, title the entry's name
\* and tvdbId the resolver's result for it; an entry whose lookup fails gets
\* tvdbId 0 and the entries after it are still processed and returned.
C4_OneItemPerEntryInOrder ==
    \A t \in Threads :
        (pc[t] = "done" /\ fetched[t] = "list") =>
            /\ resp[t].status = 200
            /\ Len(resp[t].body) = Len(items[t])
            /\ Len(how[t]) = Len(items[t])
            /\ \A i \in 1..Len(items[t]) :
                /\ resp[t].body[i].title = items[t][i][1]
                /\ Some(resp[t].body[i].tvdbId) = how[t][i].ret
                /\ how[t][i].kind \in {"error", "empty"} =>
                        resp[t].body[i].tvdbId = 0

C4_Witness ==
    /\ pc[Main] = "done"
    /\ fetched[Main] = "list"
    /\ items[Main] = <<Some("A"), Some("a")>>
    /\ how[Main][1].kind = "error"
    /\ how[Main][2].kind = "found"
    /\ resp[Main].body = <<[title |-> "A", tvdbId |-> 0], [title |-> "a", tvdbId |-> 1]>>

\* C5: every GET /watching-list request ends in a 200 response, no exception
\* of the fetch or resolution chain crossing the HTTP boundary; when the
\* tracking-service call fails (error or malformed payload) the body is [].
C5_AlwaysAnswers200 ==
    \A t \in Threads :
        /\ resp[t].status \in {0, 200}
        /\ pc[t] = "done" =>
            /\ resp[t].status = 200
            /\ fetched[t] \in {"error", "malformed"} => resp[t].body = <<>>

C5_Witness ==
    /\ pc[Main] = "done"
    /\ fetched[Main] = "malformed"
    /\ Len(how[Main]) = 1
    /\ resp[Main] = Response(<<>>)

\* C6: a storage error raised by a cache read or write while a request is
\* served is not masked: the request fails, it is not answered with a
\* successful (empty or partial) result.
C6_StorageErrorNotMasked ==
    \A t \in Threads :
        (pc[t] = "done" /\ stErr[t]) => resp[t].status # 200

\* C7: TVDBCache.get(name) returns the stored identifier if and only if an
\* entry exists for exactly that name and now - resolvedAt is strictly less
\* than the expiry window; otherwise it returns nothing and raises no error.
C7_GetReturnsIffExactNameAndFresh ==
    [][\A t \in Threads :
        (pc[t] = "get" /\ items[t][idx[t]] # None /\ Moved(t)) =>
            LET fresh == {r \in table :
                            /\ r.series_name = CurName(t)
                            /\ now - fromisoformat(r.created_at) < Window}
            IN  /\ cur'[t].name = CurName(t)
                /\ fresh # {} => \E r \in fresh : cur'[t].got = Some(r.tvdb_id)
                /\ fresh = {} => cur'[t].got = None
                /\ ~stErr'[t]
                /\ pc'[t] = "done" => resp'[t].status = 200]_vars

C7_Witness ==
    /\ pc[Main] = "api"
    /\ cur[Main].name = "a"
    /\ cur[Main].seen # <<>>
    /\ cur[Main].seen[1].age = Window
    /\ cur[Main].seen[1].tvdb_id # 0
    /\ cur[Main].got = None
    /\ \E r \in table : r.series_name = "A" /\ now - fromisoformat(r.created_at) < Window

\* C8: the cache holds at most one entry per series name: after any sequence
\* of TVDBCache.set calls, concurrent ones included, the entry of a name
\* carries the identifier and timestamp of the last set committed for it,
\* and a set leaves the entries of the other names unchanged.
C8_OneEntryPerNameLastWriteWins ==
    /\ [](\A n \in Names :
            LET rows == {r \in table : r.series_name = n}
            IN  /\ Cardinality(rows) <= 1
                /\ lastSet[n] = None <=> rows = {}
                /\ lastSet[n] # None =>
                     rows = {Row(n, lastSet[n][1].tvdb_id, lastSet[n][1].created_at)})
    /\ [][\A t \in Threads :
            (pc[t] = "commit" /\ Moved(t)) =>
                /\ {r \in table' : r.series_name # CurName(t)}
                     = {r \in table : r.series_name # CurName(t)}
                /\ {r \in table' : r.series_name = CurName(t)}
                     = {Row(CurName(t), tvdb_id[t], stamp[t])}]_vars

C8_Witness ==
    /\ pc[1] = "done" /\ pc[2] = "done"
    /\ items[1] = <<Some("A")>> /\ items[2] = <<Some("A")>>
    /\ tvdb_id[1] = 1 /\ tvdb_id[2] = 2
    /\ fromisoformat(stamp[1]) > fromisoformat(stamp[2])
    /\ table = {Row("A", 2, stamp[2])}

\* C9: while serving one request the system makes exactly one call to the
\* tracking service and only afterwards calls the lookup service, at most
\* once per item and only for items whose name misses the cache when the
\* item is resolved; items that hit the cache cause no lookup call.
C9_OneFetchThenLookupsOnlyOnMiss ==
    \A t \in Threads :
        /\ bgmCalls[t] <= 1
        /\ pc[t] \notin {"idle", "fetch"} => bgmCalls[t] = 1
        /\ cur[t].calls <= 1
        /\ cur[t].calls > 0 => bgmCalls[t] = 1 /\ cur[t].got = None

\* C10: no operation removes a cache entry: a stale entry is reported as a
\* miss but stays in storage unchanged until a successful resolution of the
\* same name overwrites it, so the set of cached names never shrinks.
C10_EntriesAreNeverRemoved ==
    [][/\ {r.series_name : r \in table} \subseteq {r.series_name : r \in table'}
       /\ \A r \in table :
            \/ r \in table'
            \/ \E t \in Threads :
                /\ pc[t] = "commit" /\ Moved(t)
                /\ Kind(cur[t]) = "found"
                /\ CurName(t) = r.series_name]_vars

C10_Witness ==
    /\ pc[Main] = "done"
    /\ SawStale(Main)
    /\ cur[Main].got = None
    /\ Kind(cur[Main]) = "empty"
    /\ now = MaxTime
    /\ \E r \in table :
        /\ r.series_name = cur[Main].name
        /\ now - fromisoformat(r.created_at) >= Window

====
